---- MODULE Spec2Model ----
(***************************************************************************)
(* Commodity data extractor: the extraction / normalisation / chunking     *)
(* pipeline of src/app.py and the legacy client of src/api_client.py.      *)
(*                                                                         *)
(* Texts are sequences of tokens.  A token is a TLA+ string standing for a *)
(* piece of text that the code never looks inside: the fence marker "FENCE", *)
(* the word "json", a brace, a quote, a digit, a word.  A Python str is    *)
(* the sequence of its tokens, so 'a in b' on two strs is "a is a          *)
(* contiguous subsequence of b" and split/find/strip work on positions.    *)
(*                                                                         *)
(* A JSON value (what json.loads returns) is a pair <<tag, payload>> with  *)
(* tag "num", "str", "null", "list" or "dict": x[1] is the type of x and   *)
(* x[2] its content, a dict's content being a function from keys (strs)    *)
(* to JSON values.                                                         *)
(***************************************************************************)
EXTENDS Integers, Sequences, FiniteSets, TLC

VARIABLES
    pc,                \* position of extract_from_large_document
    document_content,  \* its argument
    chunks,            \* process_large_document's result
    idx,               \* the loop index i of the chunk loop (0-based)
    all_results,       \* the list all_results
    submitted,         \* chunk indexes handed to extract_commodity_data, in call order
    answers,           \* what the endpoint answered to each call, in call order
    result,            \* the value returned by extract_from_large_document
    http,              \* SpecCall: the endpoint's answer to one extraction call
    app_result,        \* SpecCall: app.extract_commodity_data's return value
    client_result,     \* SpecCall: LlamaApiClient.extract_commodity_data's return value
    data,              \* SpecStd: the parsed JSON value handed to standardize_data
    once,              \* SpecStd: standardize_data(data)
    twice,             \* SpecStd: standardize_data(standardize_data(data))
    budget,            \* SpecChunk: the max_tokens argument of process_large_document
    surviving,         \* SpecMerge: the chunk results without "error", in chunk order
    merged_result,     \* SpecMerge: the record merged from surviving
    reordered,         \* SpecMerge: the same chunk results in another order
    merged_reordered   \* SpecMerge: the record merged from reordered

vars == <<pc, document_content, chunks, idx, all_results, submitted, answers, result,
          http, app_result, client_result, data, once, twice, budget,
          surviving, merged_result, reordered, merged_reordered>>

pipeVars == <<pc, document_content, chunks, idx, all_results, submitted, answers, result,
              budget>>
callVars == <<http, app_result, client_result>>
stdVars == <<data, once, twice>>
mergeVars == <<surviving, merged_result, reordered, merged_reordered>>

----------------------------------------------------------------------------
(* Bounds of the model *)

\* longest list of initiatives / managers drawn for standardize_data
MaxItems == 2
\* longest reply text drawn token by token
MaxText == 4
\* longest JSON text J placed inside a json-tagged fence
MaxJson == 3
\* most text blocks (paragraphs) of a document handed to the pipeline
MaxBlocks == 3

----------------------------------------------------------------------------
(* JSON values and the Python operations the code applies to them *)

Num(n) == <<"num", n>>
Str(s) == <<"str", s>>
List(s) == <<"list", s>>
Dict(d) == <<"dict", d>>
Null == <<"null", 0>>

\* the Python str literal written as the single word w
K(w) == <<w>>
S(w) == Str(<<w>>)

IsStr(x) == x[1] = "str"
IsList(x) == x[1] = "list"
IsDict(x) == x[1] = "dict"

EmptyDict == Dict(<<>>)

\* d[k] = v on a dict
Put(d, k, v) == Dict((k :> v) @@ d[2])
\* k in d, d a dict
HasKey(d, k) == k \in DOMAIN d[2]
\* d.get(k, default)
GetOr(d, k, default) == IF k \in DOMAIN d[2] THEN d[2][k] ELSE default

\* p occurs in s at position at (1-based)
OccursAt(s, p, at) ==
    /\ at >= 1
    /\ at + Len(p) - 1 <= Len(s)
    /\ \A j \in 1..Len(p) : s[at + j - 1] = p[j]

\* s.find(p) + 1: the first position where p occurs in s, 0 when it does not
Find(s, p) ==
    LET hits == {at \in 1..(Len(s) + 1) : OccursAt(s, p, at)}
    IN IF hits = {} THEN 0 ELSE CHOOSE at \in hits : \A other \in hits : at <= other

\* s.rfind(p) + 1
RFind(s, p) ==
    LET hits == {at \in 1..(Len(s) + 1) : OccursAt(s, p, at)}
    IN IF hits = {} THEN 0 ELSE CHOOSE at \in hits : \A other \in hits : at >= other

\* 'key in x' raises TypeError: x is not a container (int, float, None)
InRaises(x) == x[1] \in {"num", "null"}

\* 'key in x' for a str key, on a container x: a dict's keys, a list's elements,
\* a str's substrings
PyIn(key, x) ==
    CASE x[1] = "dict" -> key \in DOMAIN x[2]
      [] x[1] = "list" -> \E j \in 1..Len(x[2]) : x[2][j] = Str(key)
      [] x[1] = "str" -> Find(x[2], key) > 0
      [] OTHER -> FALSE

\* the decimal text of a small positive number, as one token
Decimal == <<"1", "2", "3", "4", "5", "6", "7", "8", "9", "10", "11", "12">>
str(n) == Decimal[n]

----------------------------------------------------------------------------
(* json.loads on a token text *)

Whitespace == {" "}
Digits == {"1"}
QUOTE == "\""

ParseFail == [ok |-> FALSE, val |-> Null, pos |-> 0]
Parsed(val, pos) == [ok |-> TRUE, val |-> val, pos |-> pos]

RECURSIVE SkipWs(_, _)
SkipWs(s, at) ==
    IF at <= Len(s) /\ s[at] \in Whitespace THEN SkipWs(s, at + 1) ELSE at

\* the position after the run of digits that starts at 'at'
RECURSIVE DigitsEnd(_, _)
DigitsEnd(s, at) ==
    IF at <= Len(s) /\ s[at] \in Digits THEN DigitsEnd(s, at + 1) ELSE at

\* the number written by a run of n digits "1": 1, 11, 111, ...
RECURSIVE Ones(_)
Ones(n) == IF n = 0 THEN 0 ELSE 10 * Ones(n - 1) + 1

\* a string literal at 'at' (s[at] is the opening quote): it ends at the next quote
ParseString(s, at) ==
    LET closing == {j \in (at + 1)..Len(s) : s[j] = QUOTE}
    IN IF closing = {} THEN ParseFail
       ELSE LET j == CHOOSE c \in closing : \A o \in closing : c <= o
            IN Parsed(Str(SubSeq(s, at + 1, j - 1)), j + 1)

RECURSIVE ParseValue(_, _)
RECURSIVE ParseMembers(_, _, _)
RECURSIVE ParseElements(_, _, _)

\* a JSON value starting at 'at' (leading whitespace already skipped)
ParseValue(s, at) ==
    IF at > Len(s) THEN ParseFail
    ELSE IF s[at] \in Digits THEN
        LET e == DigitsEnd(s, at) IN Parsed(Num(Ones(e - at)), e)
    ELSE IF s[at] = QUOTE THEN ParseString(s, at)
    ELSE IF s[at] = "null" THEN Parsed(Null, at + 1)
    ELSE IF s[at] = "{" THEN
        LET k == SkipWs(s, at + 1)
        IN IF k <= Len(s) /\ s[k] = "}" THEN Parsed(EmptyDict, k + 1)
           ELSE ParseMembers(s, k, EmptyDict)
    ELSE IF s[at] = "[" THEN
        LET k == SkipWs(s, at + 1)
        IN IF k <= Len(s) /\ s[k] = "]" THEN Parsed(List(<<>>), k + 1)
           ELSE ParseElements(s, k, <<>>)
    ELSE ParseFail

\* "key": value pairs up to the closing brace; a repeated key keeps its last value
ParseMembers(s, at, acc) ==
    IF at > Len(s) \/ s[at] # QUOTE THEN ParseFail
    ELSE LET key == ParseString(s, at) IN
         IF ~key.ok THEN ParseFail
         ELSE LET colon == SkipWs(s, key.pos) IN
              IF colon > Len(s) \/ s[colon] # ":" THEN ParseFail
              ELSE LET val == ParseValue(s, SkipWs(s, colon + 1)) IN
                   IF ~val.ok THEN ParseFail
                   ELSE LET next == SkipWs(s, val.pos)
                            acc2 == Put(acc, key.val[2], val.val)
                        IN IF next > Len(s) THEN ParseFail
                           ELSE IF s[next] = "}" THEN Parsed(acc2, next + 1)
                           ELSE IF s[next] = "," THEN ParseMembers(s, SkipWs(s, next + 1), acc2)
                           ELSE ParseFail

\* values up to the closing bracket
ParseElements(s, at, acc) ==
    LET val == ParseValue(s, at) IN
    IF ~val.ok THEN ParseFail
    ELSE LET next == SkipWs(s, val.pos)
             acc2 == Append(acc, val.val)
         IN IF next > Len(s) THEN ParseFail
            ELSE IF s[next] = "]" THEN Parsed(List(acc2), next + 1)
            ELSE IF s[next] = "," THEN ParseElements(s, SkipWs(s, next + 1), acc2)
            ELSE ParseFail

\* json.loads(s): [ok |-> FALSE] stands for json.JSONDecodeError
loads(s) ==
    LET r == ParseValue(s, SkipWs(s, 1))
    IN IF r.ok /\ SkipWs(s, r.pos) = Len(s) + 1 THEN [ok |-> TRUE, val |-> r.val]
       ELSE [ok |-> FALSE, val |-> Null]

----------------------------------------------------------------------------
(* ResponseJSONExtractor: the candidate JSON text of a reply *)

\* the token "FENCE" stands for the fence marker, three backticks
FENCE == <<"FENCE">>
JSON_FENCE == <<"FENCE", "json">>

\* s.split(sep)[0]: the text before the first sep, all of s when there is none
SplitHead(s, sep) ==
    LET at == Find(s, sep) IN IF at = 0 THEN s ELSE SubSeq(s, 1, at - 1)

\* the text after the first sep (sep occurs in s)
AfterFirst(s, sep) == SubSeq(s, Find(s, sep) + Len(sep), Len(s))

\* s.split(sep)[1], for s that contains sep: from the first sep to the next one
SplitSecond(s, sep) == SplitHead(AfterFirst(s, sep), sep)

RECURSIVE LStrip(_)
LStrip(s) == IF s # <<>> /\ Head(s) \in Whitespace THEN LStrip(Tail(s)) ELSE s

RECURSIVE RStrip(_)
RStrip(s) ==
    IF s # <<>> /\ s[Len(s)] \in Whitespace THEN RStrip(SubSeq(s, 1, Len(s) - 1)) ELSE s

\* s.strip()
strip(s) == RStrip(LStrip(s))

\* the else branch: from the first opening brace to the last closing brace
BraceSlice(response_text) ==
    LET start == Find(response_text, <<"{">>) - 1
        end == RFind(response_text, <<"}">>)
    IN IF start >= 0 /\ end > start THEN SubSeq(response_text, start + 1, end)
       ELSE response_text

\* the text between the json-tagged fence and the fence that follows it
JsonFenceSlice(response_text) ==
    strip(SplitHead(SplitSecond(response_text, JSON_FENCE), FENCE))

\* the text between the first two fences
FenceSlice(response_text) == strip(SplitSecond(response_text, FENCE))

json_str(response_text) ==
    IF Find(response_text, JSON_FENCE) > 0 THEN JsonFenceSlice(response_text)
    ELSE IF Find(response_text, FENCE) > 0 THEN FenceSlice(response_text)
    ELSE BraceSlice(response_text)

----------------------------------------------------------------------------
(* SchemaStandardizer: standardize_data *)

ID == K("id")
TITLE == K("title")
DESCRIPTION == K("description")
VALUE_EUR == K("value_eur")
STATUS == K("status")
QUALITATIVE == K("qualitative_initiatives")
QUANTITATIVE == K("quantitative_initiatives")
MANAGERS == K("responsible_managers")
SWOT == K("swot_analysis")
COMMODITY == K("commodity_name")
CREATED == K("creation_date")
VALID_UNTIL == K("valid_until")
COST_DRIVERS == K("cost_drivers")
SUSTAINABILITY == K("sustainability_factors")
ERROR == K("error")

SwotKeys == <<K("strengths"), K("weaknesses"), K("opportunities"), K("threats")>>

\* f"Q{n}", f"QT{n}", f"Initiative {n}"
QId(n) == Str(<<"Q", str(n)>>)
QTId(n) == Str(<<"QT", str(n)>>)
InitiativeLabel(n) == Str(<<"Initiative ", str(n)>>)

\* one entry of qualitative_initiatives, a str or a dict, at position n - 1
QualItem(item, n) ==
    IF IsStr(item)
    THEN Dict((ID :> QId(n)) @@ (TITLE :> item) @@ (DESCRIPTION :> Null))
    ELSE LET a == IF HasKey(item, ID) THEN item ELSE Put(item, ID, QId(n))
             b == IF HasKey(a, TITLE) THEN a
                  ELSE Put(a, TITLE, GetOr(a, DESCRIPTION, InitiativeLabel(n)))
             c == IF HasKey(b, DESCRIPTION) THEN b ELSE Put(b, DESCRIPTION, Null)
         IN c

\* the mutant of QuantItem: a dict entry loses the keys it had but "description"
QuantItemDropsKeys(item, n) ==
    IF IsStr(item)
    THEN Dict((ID :> QTId(n)) @@ (DESCRIPTION :> item) @@ (VALUE_EUR :> Null)
              @@ (STATUS :> Null))
    ELSE Dict((ID :> QTId(n)) @@ (DESCRIPTION :> GetOr(item, DESCRIPTION, InitiativeLabel(n)))
              @@ (VALUE_EUR :> Null) @@ (STATUS :> Null))

\* one entry of quantitative_initiatives, a str or a dict, at position n - 1
QuantItem(item, n) ==
    IF IsStr(item)
    THEN Dict((ID :> QTId(n)) @@ (DESCRIPTION :> item) @@ (VALUE_EUR :> Null)
              @@ (STATUS :> Null))
    ELSE LET a == IF HasKey(item, ID) THEN item ELSE Put(item, ID, QTId(n))
             b == IF HasKey(a, DESCRIPTION) THEN a ELSE Put(a, DESCRIPTION, InitiativeLabel(n))
             c == IF HasKey(b, VALUE_EUR) THEN b ELSE Put(b, VALUE_EUR, Null)
             d == IF HasKey(c, STATUS) THEN c ELSE Put(c, STATUS, Null)
         IN d

\* the loop over enumerate(data["qualitative_initiatives"]), first n entries:
\* entries that are neither str nor dict are not appended
RECURSIVE QualLoop(_, _)
QualLoop(items, n) ==
    IF n = 0 THEN <<>>
    ELSE IF IsStr(items[n]) \/ IsDict(items[n])
         THEN Append(QualLoop(items, n - 1), QualItem(items[n], n))
         ELSE QualLoop(items, n - 1)

RECURSIVE QuantLoop(_, _)
QuantLoop(items, n) ==
    IF n = 0 THEN <<>>
    ELSE IF IsStr(items[n]) \/ IsDict(items[n])
         THEN Append(QuantLoop(items, n - 1), QuantItem(items[n], n))
         ELSE QuantLoop(items, n - 1)

StandardizeQualitative(d) ==
    IF HasKey(d, QUALITATIVE) /\ IsList(d[2][QUALITATIVE])
    THEN Put(d, QUALITATIVE, List(QualLoop(d[2][QUALITATIVE][2], Len(d[2][QUALITATIVE][2]))))
    ELSE d

StandardizeQuantitative(d) ==
    IF HasKey(d, QUANTITATIVE) /\ IsList(d[2][QUANTITATIVE])
    THEN Put(d, QUANTITATIVE, List(QuantLoop(d[2][QUANTITATIVE][2], Len(d[2][QUANTITATIVE][2]))))
    ELSE d

StandardizeManagers(d) ==
    IF ~HasKey(d, MANAGERS) THEN d
    ELSE IF IsStr(d[2][MANAGERS]) THEN Put(d, MANAGERS, List(<<d[2][MANAGERS]>>))
    ELSE IF ~IsList(d[2][MANAGERS]) THEN Put(d, MANAGERS, List(<<>>))
    ELSE d

\* the mutant of SwotKey: a value is wrapped even when it is a list already
SwotKeyWrapsLists(swot, key) ==
    IF ~HasKey(swot, key) THEN Put(swot, key, List(<<>>))
    ELSE Put(swot, key, List(<<swot[2][key]>>))

\* one key of swot_analysis
SwotKey(swot, key) ==
    IF ~HasKey(swot, key) THEN Put(swot, key, List(<<>>))
    ELSE IF ~IsList(swot[2][key]) THEN Put(swot, key, List(<<swot[2][key]>>))
    ELSE swot

\* the loop over the four keys, first n of them
RECURSIVE SwotLoop(_, _)
SwotLoop(swot, n) ==
    IF n = 0 THEN swot ELSE SwotKey(SwotLoop(swot, n - 1), SwotKeys[n])

\* the mutant of StandardizeSwot: swot_analysis is left as it was supplied
StandardizeSwotLeavesAsIs(d) == d

StandardizeSwot(d) ==
    IF HasKey(d, SWOT) /\ IsDict(d[2][SWOT])
    THEN Put(d, SWOT, SwotLoop(d[2][SWOT], Len(SwotKeys)))
    ELSE d

standardize_data(d) ==
    IF ~IsDict(d) THEN d
    ELSE StandardizeSwot(StandardizeManagers(StandardizeQuantitative(
             StandardizeQualitative(d))))

----------------------------------------------------------------------------
(* The extraction call: response handling of extract_commodity_data *)

CHOICES == K("choices")
MESSAGE == K("message")
CONTENT == K("content")
PREDICTIONS == K("predictions")
RAW_RESPONSE == K("raw_response")
DETAILS == K("details")
SOLUTION == K("solution")

\* response.json() raised: the body is not JSON
NoJson == <<"nojson", 0>>
\* a result that has not been computed yet
NotRun == <<"notrun", 0>>

\* str(response.status_code), for the status codes the model draws
StatusText ==
    (200 :> "200") @@ (201 :> "201") @@ (302 :> "302") @@ (400 :> "400")
    @@ (401 :> "401") @@ (403 :> "403") @@ (404 :> "404") @@ (429 :> "429")
    @@ (500 :> "500") @@ (503 :> "503")

\* requests.post raised (connection failure, timeout)
Raised == [kind |-> "exc", status |-> 0, text |-> <<>>, json |-> NoJson]
\* requests.post returned: status_code, text, and what json() gives
Response(status, text, json) ==
    [kind |-> "resp", status |-> status, text |-> text, json |-> json]

\* len(x) of a str, list or dict
PyLen(x) == IF IsDict(x) THEN Cardinality(DOMAIN x[2]) ELSE Len(x[2])

\* the error records of app.extract_commodity_data
RequestFailed == Dict(ERROR :> Str(<<"Request failed: ", "<exception>">>))
ParseError(response_text) ==
    Dict((ERROR :> Str(<<"Failed to parse JSON: ", "<JSONDecodeError>">>))
         @@ (RAW_RESPONSE :> Str(response_text)))
NoValidFormat(body) ==
    Dict((ERROR :> S("No valid response format")) @@ (RAW_RESPONSE :> body))
BadRequest(text) == Dict(ERROR :> Str(<<"API Error (", "400", "): ">> \o text))
AuthError == Dict(ERROR :> S("Authentication error - check your API token"))
ServerError ==
    Dict(ERROR :> S("Server error - the API service may be experiencing issues"))
ApiError(status, text) ==
    Dict(ERROR :> Str(<<"API Error (", StatusText[status], "): ">> \o text))

\* lines 88-108: candidate, json.loads, standardize_data
AppParse(response_text) ==
    LET parsed == loads(json_str(response_text))
    IN IF parsed.ok THEN standardize_data(parsed.val) ELSE ParseError(response_text)

\* lines 81-110: the 200 branch, body being response.json().  Every exception
\* raised inside it is caught at line 120.
AppOn200(body) ==
    IF body = NoJson \/ InRaises(body) THEN RequestFailed
    ELSE IF ~PyIn(CHOICES, body) THEN NoValidFormat(body)
    ELSE IF ~IsDict(body) THEN RequestFailed
    ELSE LET choices == body[2][CHOICES] IN
    IF InRaises(choices) THEN RequestFailed
    ELSE IF PyLen(choices) = 0 THEN NoValidFormat(body)
    ELSE IF IsDict(choices) THEN RequestFailed
    \* choices[0] of a str is one character: "message" is not in it
    ELSE IF IsStr(choices) THEN NoValidFormat(body)
    ELSE LET first == choices[2][1] IN
    IF InRaises(first) THEN RequestFailed
    ELSE IF ~PyIn(MESSAGE, first) THEN NoValidFormat(body)
    ELSE IF ~IsDict(first) THEN RequestFailed
    ELSE LET message == first[2][MESSAGE] IN
    IF ~IsDict(message) \/ ~HasKey(message, CONTENT) THEN RequestFailed
    ELSE LET response_text == message[2][CONTENT] IN
    \* a content that is no str fails in the 'in' tests or has no find/split
    IF ~IsStr(response_text) THEN RequestFailed
    ELSE AppParse(response_text[2])

\* the mutant of AppStatus: a 403 is not told apart from the other statuses
AppStatusForgets403(status, text) ==
    IF status = 400 THEN BadRequest(text)
    ELSE IF status = 401 THEN AuthError
    ELSE IF status >= 500 THEN ServerError
    ELSE ApiError(status, text)

\* lines 111-118: the branches for a status other than 200
AppStatus(status, text) ==
    IF status = 400 THEN BadRequest(text)
    ELSE IF status = 401 \/ status = 403 THEN AuthError
    ELSE IF status >= 500 THEN ServerError
    ELSE ApiError(status, text)

\* app.extract_commodity_data, given what requests.post did
extract_commodity_data(h) ==
    IF h.kind = "exc" THEN RequestFailed
    ELSE IF h.status = 200 THEN AppOn200(h.json)
    ELSE AppStatus(h.status, h.text)

\* the error records of LlamaApiClient.extract_commodity_data
NoPredictions(body) ==
    Dict((ERROR :> S("No predictions in response")) @@ (RAW_RESPONSE :> body))
ClientApiError(status, text) ==
    Dict((ERROR :> Str(<<"API Error: ", StatusText[status]>>)) @@ (DETAILS :> Str(text)))

\* api_client.py lines 85-104: candidate and json.loads, not standardized
ClientParse(response_text) ==
    LET parsed == loads(json_str(response_text))
    IN IF parsed.ok THEN parsed.val ELSE ParseError(response_text)

\* api_client.py lines 77-106
ClientOn200(body) ==
    IF body = NoJson \/ InRaises(body) THEN RequestFailed
    ELSE IF ~PyIn(PREDICTIONS, body) THEN NoPredictions(body)
    ELSE IF ~IsDict(body) THEN RequestFailed
    ELSE LET predictions == body[2][PREDICTIONS] IN
    IF InRaises(predictions) THEN RequestFailed
    ELSE IF PyLen(predictions) = 0 THEN NoPredictions(body)
    ELSE IF IsDict(predictions) THEN RequestFailed
    \* predictions[0] of a str is its first character
    ELSE IF IsStr(predictions) THEN ClientParse(<<predictions[2][1]>>)
    ELSE LET response_text == predictions[2][1] IN
    IF ~IsStr(response_text) THEN RequestFailed
    ELSE ClientParse(response_text[2])

\* LlamaApiClient.extract_commodity_data, given what requests.post did
client_extract_commodity_data(h) ==
    IF h.kind = "exc" THEN RequestFailed
    ELSE IF h.status = 200 THEN ClientOn200(h.json)
    ELSE ClientApiError(h.status, h.text)

----------------------------------------------------------------------------
(* Inputs *)

SeqsUpTo(A, n) == UNION {[1..k -> A] : k \in 0..n}

\* reply texts drawn token by token
TextAlphabet == {"FENCE", "json", "{", "}", QUOTE, "1", "x"}
AllTexts == SeqsUpTo(TextAlphabet, MaxText)

\* every valid JSON text of at most MaxJson tokens
JsonAlphabet == {"FENCE", "{", "}", QUOTE, "1", "[", "]", ":", " "}
ValidJson == {J \in SeqsUpTo(JsonAlphabet, MaxJson) : loads(J).ok}

\* replies that hold a JSON text in a json-tagged fence, inside prose
ProseBefore == {<<>>, <<"x">>, <<"x", " ">>, <<"{">>}
ProseAfter == {<<>>, <<" ", "x">>, <<"}">>, <<"FENCE", "x", "FENCE">>}
FencedReplies ==
    {pre \o JSON_FENCE \o J \o FENCE \o post :
        pre \in ProseBefore, J \in ValidJson, post \in ProseAfter}

ReplyTexts == AllTexts \cup FencedReplies

\* the 200 body that carries the content in the wire format of the endpoint called
Reply(content) == <<"reply", content>>
ChatBody(content) ==
    Dict(CHOICES :> List(<<Dict(MESSAGE :> Dict(CONTENT :> content))>>))
PredictionsBody(content) == Dict(PREDICTIONS :> List(<<content>>))
AppBody(json) == IF json[1] = "reply" THEN ChatBody(json[2]) ELSE json
ClientBody(json) == IF json[1] = "reply" THEN PredictionsBody(json[2]) ELSE json

\* other 200 bodies: not JSON, not a dict, no choices/predictions, empty or
\* ill-typed choices/predictions, a content that is no str, the other format
OtherBodies ==
    {NoJson, Num(1), Null, EmptyDict, List(<<S("choices")>>),
     Dict(CHOICES :> List(<<>>)), Dict(PREDICTIONS :> List(<<>>)),
     Dict(CHOICES :> Num(1)), Dict(PREDICTIONS :> EmptyDict),
     Dict(CHOICES :> List(<<EmptyDict>>)),
     Dict(CHOICES :> List(<<Dict(MESSAGE :> S("x"))>>)),
     Reply(Null), Reply(List(<<S("x")>>)),
     ChatBody(Str(<<"{", "}">>)), PredictionsBody(Str(<<"{", "}">>))}

Statuses == DOMAIN StatusText
\* response.text of an error answer; the last one is the endpoint's
\* context-length-exceeded marker
ErrorTexts == {<<>>, <<"x">>, <<"context_length_exceeded">>}

HttpOutcomes ==
    {Raised}
    \cup {Response(st, text, NoJson) : st \in Statuses \ {200}, text \in ErrorTexts}
    \cup {Response(200, <<>>, body) : body \in OtherBodies}
    \cup {Response(200, <<>>, Reply(Str(text))) : text \in ReplyTexts}

----------------------------------------------------------------------------
(* SpecCall: one extraction call, by either client *)

PipeIdle ==
    /\ pc = "idle" /\ document_content = <<>> /\ chunks = <<>> /\ idx = 0
    /\ all_results = <<>> /\ submitted = <<>> /\ answers = <<>> /\ result = NotRun
    /\ budget = 0
CallIdle == http = Raised /\ app_result = NotRun /\ client_result = NotRun
StdIdle == data = NotRun /\ once = NotRun /\ twice = NotRun
MergeIdle ==
    /\ surviving = <<>> /\ merged_result = NotRun
    /\ reordered = <<>> /\ merged_reordered = NotRun

CallInit ==
    /\ http \in HttpOutcomes
    /\ app_result = NotRun /\ client_result = NotRun
    /\ PipeIdle /\ StdIdle /\ MergeIdle

\* app.extract_commodity_data(document) with the endpoint answering http
CallApp ==
    /\ app_result = NotRun
    /\ app_result' =
         extract_commodity_data([http EXCEPT !.json = AppBody(http.json)])
    /\ UNCHANGED <<http, client_result, pipeVars, stdVars, mergeVars>>

\* LlamaApiClient().extract_commodity_data(document), same answer
CallClient ==
    /\ client_result = NotRun
    /\ client_result' =
         client_extract_commodity_data([http EXCEPT !.json = ClientBody(http.json)])
    /\ UNCHANGED <<http, app_result, pipeVars, stdVars, mergeVars>>

CallNext == CallApp \/ CallClient

SpecCall == CallInit /\ [][CallNext]_vars

----------------------------------------------------------------------------
(* SpecStd: standardize_data applied to a parsed JSON value, then again *)

\* entries of a qualitative_initiatives list: a str, an entry that is neither
\* str nor dict, and dicts with some or all of the keys
QualEntries ==
    {S("Reduce packaging"), Num(1), EmptyDict,
     Dict(TITLE :> S("Reduce packaging")),
     Dict(DESCRIPTION :> S("Hedge contract")),
     Dict((ID :> QId(2)) @@ (TITLE :> S("Audit")) @@ (DESCRIPTION :> Null))}

QuantEntries ==
    {S("Hedge contract"), Null, EmptyDict,
     Dict((DESCRIPTION :> S("Hedge contract")) @@ (VALUE_EUR :> Num(50000))),
     Dict((ID :> QTId(2)) @@ (K("owner") :> S("Ann"))),
     Dict((ID :> S("A7")) @@ (DESCRIPTION :> S("Energy cost reduction"))
          @@ (VALUE_EUR :> Null) @@ (STATUS :> S("open")))}

ManagerValues ==
    {S("Ann"), Null, Num(1), EmptyDict}
    \cup {List(l) : l \in SeqsUpTo({S("Ann"), S("Bob")}, MaxItems)}

\* swot_analysis: values that are no dict, and dicts whose keys are absent, a
\* scalar, or a list
SwotDicts ==
    {Dict(d) :
       d \in UNION {[ks -> {S("Strong brand"), Num(1), List(<<>>), List(<<S("Strong brand")>>)}] :
                      ks \in SUBSET {SwotKeys[1], SwotKeys[2], SwotKeys[4]}}}
SwotValues == {S("Strong brand"), Null, List(<<S("Strong brand")>>)} \cup SwotDicts

\* one field of the record
FieldValues ==
    {<<QUALITATIVE, v>> : v \in {S("none")} \cup {List(l) : l \in SeqsUpTo(QualEntries, MaxItems)}}
    \cup {<<QUANTITATIVE, v>> : v \in {Null} \cup {List(l) : l \in SeqsUpTo(QuantEntries, MaxItems)}}
    \cup {<<MANAGERS, v>> : v \in ManagerValues}
    \cup {<<SWOT, v>> : v \in SwotValues}

\* the rest of the record
BaseRecords ==
    {EmptyDict,
     Dict((COMMODITY :> S("Sugar")) @@ (MANAGERS :> S("Ann"))
          @@ (SWOT :> Dict(K("strengths") :> S("Strong brand")))),
     Dict((QUALITATIVE :> List(<<S("Reduce packaging")>>))
          @@ (QUANTITATIVE :> List(<<Dict(DESCRIPTION :> S("Hedge contract")), Num(1)>>))
          @@ (MANAGERS :> Num(1)) @@ (SWOT :> Null))}

StdInputs ==
    {Num(1), Null, S("x"), List(<<EmptyDict>>)}
    \cup BaseRecords
    \cup {Put(base, fv[1], fv[2]) : base \in BaseRecords, fv \in FieldValues}

StdInit ==
    /\ data \in StdInputs
    /\ once = NotRun /\ twice = NotRun
    /\ PipeIdle /\ CallIdle /\ MergeIdle

\* data = standardize_data(data)
Standardize ==
    /\ once = NotRun
    /\ once' = standardize_data(data)
    /\ UNCHANGED <<data, twice, pipeVars, callVars, mergeVars>>

\* and once more, on the record the first call returned
StandardizeAgain ==
    /\ once # NotRun /\ twice = NotRun
    /\ twice' = standardize_data(once)
    /\ UNCHANGED <<data, once, pipeVars, callVars, mergeVars>>

StdNext == Standardize \/ StandardizeAgain

SpecStd == StdInit /\ [][StdNext]_vars

----------------------------------------------------------------------------
(* Chunker: process_large_document *)

(***************************************************************************)
(* A document is a sequence of tokens too: "\n" is a newline, "--- Page"   *)
(* and "--- Slide" are the marker prefixes, "W" is a run of BlockWords     *)
(* words on one line and "w" is a single word.                             *)
(***************************************************************************)
NL == "\n"
PAGE == "--- Page"
SLIDE == "--- Slide"

\* words in a "W" token
BlockWords == 3000

\* len(text.split()) of one token
TokenWords(tok) ==
    CASE tok = "W" -> BlockWords
      [] tok = "w" -> 1
      [] tok = "w w w w w w w w w" -> 9
      [] tok \in {PAGE, SLIDE} -> 2
      [] OTHER -> 0

\* len(text.split())
RECURSIVE WordCount(_)
WordCount(text) ==
    IF text = <<>> THEN 0 ELSE TokenWords(Head(text)) + WordCount(Tail(text))

\* the budget: max_tokens=6500 and the threshold of extract_from_large_document
MAX_TOKENS == 6500

(***************************************************************************)
(* The token estimates are Python floats (IEEE-754 doubles).  Every double *)
(* the code computes here is a multiple of 2^-52 below 2^16, so a double   *)
(* is kept as that multiple, a natural number written in five limbs of 15  *)
(* bits, lowest limb first.  A product or a sum is computed exactly and    *)
(* then rounded to 53 significant bits, to nearest, ties to even.          *)
(***************************************************************************)
\* the double 0.0
FloatZero == <<0, 0, 0, 0, 0>>
\* the double 1.0, i.e. 2^52
FloatOne == <<0, 0, 0, 128, 0>>
\* the double nearest to 1.3: 5854679515581645 * 2^-52
estimated_tokens_per_word == <<19661, 6553, 13107, 166, 0>>

\* carries propagated from limb i on
RECURSIVE Carry(_, _, _)
Carry(raw, i, c) ==
    IF i > Len(raw) THEN <<>>
    ELSE <<(raw[i] + c) % 32768>> \o Carry(raw, i + 1, (raw[i] + c) \div 32768)

AddExact(x, y) == Carry([i \in 1..5 |-> x[i] + y[i]], 1, 0)
\* x times a natural number below 2^15
MulExact(x, n) == Carry([i \in 1..5 |-> x[i] * n], 1, 0)

RECURSIVE BitLen(_)
BitLen(n) == IF n = 0 THEN 0 ELSE 1 + BitLen(n \div 2)
RECURSIVE Pow2(_)
Pow2(n) == IF n = 0 THEN 1 ELSE 2 * Pow2(n - 1)

\* significant bits of x
Bits(x) ==
    IF x = FloatZero THEN 0
    ELSE LET top == CHOOSE i \in 1..5 : x[i] # 0 /\ \A j \in (i + 1)..5 : x[j] = 0
         IN 15 * (top - 1) + BitLen(x[top])

\* x rounded to 53 significant bits, to nearest, ties to even (at most 15
\* bits are dropped)
Round53(x) ==
    LET drop == Bits(x) - 53
    IN IF drop <= 0 THEN x
       ELSE LET unit == Pow2(drop)
                rest == x[1] % unit
                down == [x EXCEPT ![1] = x[1] - rest]
                odd == ((x[1] + 32768 * (x[2] % 2)) \div unit) % 2 = 1
            IN IF 2 * rest > unit \/ (2 * rest = unit /\ odd)
               THEN AddExact(down, <<unit, 0, 0, 0, 0>>)
               ELSE down

\* float(n), n an int below 2^15
FromInt(n) == MulExact(FloatOne, n)
\* n * x for an int n and a float x
FloatTimes(n, x) == Round53(MulExact(x, n))
\* x + y for two floats
FloatPlus(x, y) == Round53(AddExact(x, y))
\* x > y
RECURSIVE GreaterFrom(_, _, _)
GreaterFrom(x, y, i) ==
    IF i = 0 THEN FALSE
    ELSE IF x[i] # y[i] THEN x[i] > y[i]
    ELSE GreaterFrom(x, y, i - 1)
FloatGreater(x, y) == GreaterFrom(x, y, 5)

\* len(text.split()) * 1.3
TokenEstimate(text) == FloatTimes(WordCount(text), estimated_tokens_per_word)

\* s.split(sep), sep not empty
RECURSIVE Split(_, _)
Split(s, sep) ==
    IF Find(s, sep) = 0 THEN <<s>>
    ELSE <<SplitHead(s, sep)>> \o Split(AfterFirst(s, sep), sep)

\* line.startswith(prefix)
StartsWith(line, prefix) == OccursAt(line, prefix, 1)

IsMarkerLine(line) == StartsWith(line, <<PAGE>>) \/ StartsWith(line, <<SLIDE>>)

\* lines 205-215: the loop over the lines, first n of them;
\* [sections, current_section]
RECURSIVE MarkerLoop(_, _)
MarkerLoop(lines, n) ==
    IF n = 0 THEN [sections |-> <<>>, current_section |-> <<>>]
    ELSE LET st == MarkerLoop(lines, n - 1)
             line == lines[n]
         IN IF IsMarkerLine(line)
            THEN [sections |-> IF st.current_section # <<>>
                               THEN Append(st.sections, st.current_section)
                               ELSE st.sections,
                  current_section |-> line]
            ELSE [st EXCEPT !.current_section = st.current_section \o <<NL>> \o line]

MarkerSections(document) ==
    LET lines == Split(document, <<NL>>)
        st == MarkerLoop(lines, Len(lines))
    IN IF st.current_section # <<>> THEN Append(st.sections, st.current_section)
       ELSE st.sections

\* lines 203-218
Sections(document) ==
    IF Find(document, <<PAGE>>) > 0 \/ Find(document, <<SLIDE>>) > 0
    THEN MarkerSections(document)
    ELSE Split(document, <<NL, NL>>)

\* lines 221-235: the loop over the sections, first n of them;
\* [chunks, current_chunk, current_token_count], and as history the indexes
\* of the non-empty sections put into each chunk: groups for chunks,
\* current_group for current_chunk
RECURSIVE GroupLoop(_, _, _)
GroupLoop(sections, n, max_tokens) ==
    IF n = 0
    THEN [chunks |-> <<>>, current_chunk |-> <<>>, current_token_count |-> FloatZero,
          groups |-> <<>>, current_group |-> <<>>]
    ELSE LET st == GroupLoop(sections, n - 1, max_tokens)
             section == sections[n]
             section_tokens == TokenEstimate(section)
             here == IF section # <<>> THEN <<n>> ELSE <<>>
         IN IF FloatGreater(FloatPlus(st.current_token_count, section_tokens),
                            FromInt(max_tokens))
               /\ st.current_chunk # <<>>
            THEN [chunks |-> Append(st.chunks, st.current_chunk),
                  current_chunk |-> section,
                  current_token_count |-> section_tokens,
                  groups |-> Append(st.groups, st.current_group),
                  current_group |-> here]
            ELSE [chunks |-> st.chunks,
                  current_chunk |-> IF st.current_chunk # <<>>
                                    THEN st.current_chunk \o <<NL, NL>> \o section
                                    ELSE section,
                  current_token_count |->
                      FloatPlus(st.current_token_count, section_tokens),
                  groups |-> st.groups,
                  current_group |-> st.current_group \o here]

\* the mutant of process_large_document: the last chunk is not appended
ProcessForgetsLastChunk(document, max_tokens) ==
    LET sections == Sections(document)
    IN GroupLoop(sections, Len(sections), max_tokens).chunks

process_large_document(document, max_tokens) ==
    LET sections == Sections(document)
        st == GroupLoop(sections, Len(sections), max_tokens)
    IN IF st.current_chunk # <<>> THEN Append(st.chunks, st.current_chunk)
       ELSE st.chunks

\* the history of the same call: for each chunk returned, the indexes of the
\* sections it was built from
SectionGroups(document, max_tokens) ==
    LET sections == Sections(document)
        st == GroupLoop(sections, Len(sections), max_tokens)
    IN IF st.current_chunk # <<>> THEN Append(st.groups, st.current_group)
       ELSE st.groups

----------------------------------------------------------------------------
(* SpecChunk: process_large_document on a document and a budget *)

\* nine words on one line
RUN == "w w w w w w w w w"

\* the text of a paragraph or of a page
SectionTexts == {<<>>, <<"w">>, <<RUN>>, <<"w", NL, "w">>, <<"W">>}

RECURSIVE Paragraphs(_)
Paragraphs(texts) ==
    IF Len(texts) = 1 THEN texts[1]
    ELSE Paragraphs(SubSeq(texts, 1, Len(texts) - 1)) \o <<NL, NL>> \o texts[Len(texts)]

\* the transcript DocumentProcessor writes for pages (slides) with these texts
RECURSIVE Transcript(_, _)
Transcript(marker, texts) ==
    IF texts = <<>> THEN <<>>
    ELSE Transcript(marker, SubSeq(texts, 1, Len(texts) - 1))
         \o <<NL, marker, "w", "w", NL>> \o texts[Len(texts)] \o <<NL>>

ChunkDocs ==
    {<<>>}
    \cup {Paragraphs(texts) : texts \in SeqsUpTo(SectionTexts, MaxBlocks) \ {<<>>}}
    \cup {Transcript(PAGE, texts) : texts \in SeqsUpTo(SectionTexts, MaxBlocks) \ {<<>>}}
    \cup {Transcript(SLIDE, <<text>>) : text \in SectionTexts}

\* budgets: below one word, a few words, ten words exactly, the default
Budgets == {1, 3, 13, MAX_TOKENS}

ChunkInit ==
    /\ pc = "chunker"
    /\ document_content \in ChunkDocs
    /\ budget \in Budgets
    /\ chunks = <<>> /\ idx = 0
    /\ all_results = <<>> /\ submitted = <<>> /\ answers = <<>> /\ result = NotRun
    /\ CallIdle /\ StdIdle /\ MergeIdle

\* chunks = process_large_document(document_content, budget)
Chunk ==
    /\ pc = "chunker"
    /\ chunks' = process_large_document(document_content, budget)
    /\ pc' = "chunked"
    /\ UNCHANGED <<budget, document_content, idx, all_results, submitted, answers, result,
                   callVars, stdVars, mergeVars>>

SpecChunk == ChunkInit /\ [][Chunk]_vars

----------------------------------------------------------------------------
(* ChunkMerger: lines 271-371 of extract_from_large_document *)

\* an exception left extract_from_large_document
Exception == <<"raise", 0>>

IdentityFields == <<COMMODITY, MANAGERS, CREATED, VALID_UNTIL>>

\* hash(x) works: x can be looked up in a set
Hashable(x) == x[1] \notin {"list", "dict"}
\* bool(x)
Truthy(x) ==
    CASE x[1] = "null" -> FALSE
      [] x[1] = "num" -> x[2] # 0
      [] x[1] = "dict" -> DOMAIN x[2] # {}
      [] OTHER -> x[2] # <<>>

\* lines 275-278, first n fields
RECURSIVE CopyIdentity(_, _, _)
CopyIdentity(merged, first_result, n) ==
    IF n = 0 THEN merged
    ELSE LET m == CopyIdentity(merged, first_result, n - 1)
             field == IdentityFields[n]
         IN IF PyIn(field, first_result) THEN Put(m, field, first_result[2][field]) ELSE m

\* [result[key] for result in all_results if key in result], first n results
RECURSIVE Supplied(_, _, _)
Supplied(results, key, n) ==
    IF n = 0 THEN <<>>
    ELSE IF PyIn(key, results[n])
         THEN Append(Supplied(results, key, n - 1), results[n][2][key])
         ELSE Supplied(results, key, n - 1)

\* key=lambda x: len(x) if isinstance(x, dict) else 0
Completeness(x) == IF IsDict(x) THEN Cardinality(DOMAIN x[2]) ELSE 0

\* the mutant of MostComplete: the last of the greatest candidates
MostCompleteLast(candidates) ==
    LET best == {j \in 1..Len(candidates) :
                   \A k \in 1..Len(candidates) :
                      Completeness(candidates[j]) >= Completeness(candidates[k])}
    IN candidates[CHOOSE j \in best : \A k \in best : j >= k]

\* max(candidates, key=...): the first of the greatest candidates
MostComplete(candidates) ==
    LET best == {j \in 1..Len(candidates) :
                   \A k \in 1..Len(candidates) :
                      Completeness(candidates[j]) >= Completeness(candidates[k])}
    IN candidates[CHOOSE j \in best : \A k \in best : j <= k]

\* lines 281-287 and 361-367
MergeMostComplete(merged, results, key) ==
    IF \E j \in 1..Len(results) : PyIn(key, results[j])
    THEN Put(merged, key, MostComplete(Supplied(results, key, Len(results))))
    ELSE merged

\* the loops of lines 297 and 323 visiting the results from the last to the first
RECURSIVE EntriesLastFirst(_, _, _)
EntriesLastFirst(results, key, n) ==
    IF n = 0 THEN <<>>
    ELSE IF PyIn(key, results[n]) /\ IsList(results[n][2][key])
         THEN results[n][2][key][2] \o EntriesLastFirst(results, key, n - 1)
         ELSE EntriesLastFirst(results, key, n - 1)

\* the entries the two nested loops visit, in order: those of every result
\* whose field is a list, first n results
RECURSIVE Entries(_, _, _)
Entries(results, key, n) ==
    IF n = 0 THEN <<>>
    ELSE IF PyIn(key, results[n]) /\ IsList(results[n][2][key])
         THEN Entries(results, key, n - 1) \o results[n][2][key][2]
         ELSE Entries(results, key, n - 1)

\* lines 300-320 over the first n entries; [merged, seen]
RECURSIVE QuantMerge(_, _)
QuantMerge(items, n) ==
    IF n = 0 THEN [merged |-> <<>>, seen |-> {}]
    ELSE LET st == QuantMerge(items, n - 1)
             item == items[n]
         IN IF IsDict(item) /\ HasKey(item, DESCRIPTION)
            THEN LET desc == item[2][DESCRIPTION] IN
                 IF desc \notin st.seen
                 THEN [merged |-> Append(st.merged,
                          Dict((ID :> GetOr(item, ID, QTId(Len(st.merged) + 1)))
                               @@ (DESCRIPTION :> desc)
                               @@ (VALUE_EUR :> GetOr(item, VALUE_EUR, Null))
                               @@ (STATUS :> GetOr(item, STATUS, Null)))),
                       seen |-> st.seen \cup {desc}]
                 ELSE st
            ELSE IF IsStr(item) /\ item \notin st.seen
            THEN [merged |-> Append(st.merged,
                     Dict((ID :> QTId(Len(st.merged) + 1)) @@ (DESCRIPTION :> item)
                          @@ (VALUE_EUR :> Null) @@ (STATUS :> Null))),
                  seen |-> st.seen \cup {item}]
            ELSE st

\* title = item.get("title", item.get("description", ""))
QualTitle(item) == GetOr(item, TITLE, GetOr(item, DESCRIPTION, Str(<<>>)))

\* lines 325-343 over the first n entries; [merged, seen]
RECURSIVE QualMerge(_, _)
QualMerge(items, n) ==
    IF n = 0 THEN [merged |-> <<>>, seen |-> {}]
    ELSE LET st == QualMerge(items, n - 1)
             item == items[n]
         IN IF IsDict(item)
            THEN LET title == QualTitle(item) IN
                 IF Truthy(title) /\ title \notin st.seen
                 THEN [merged |-> Append(st.merged,
                          Dict((ID :> GetOr(item, ID, QId(Len(st.merged) + 1)))
                               @@ (TITLE :> title)
                               @@ (DESCRIPTION :> GetOr(item, DESCRIPTION, Null)))),
                       seen |-> st.seen \cup {title}]
                 ELSE st
            ELSE IF IsStr(item) /\ item \notin st.seen
            THEN [merged |-> Append(st.merged,
                     Dict((ID :> QId(Len(st.merged) + 1)) @@ (TITLE :> item)
                          @@ (DESCRIPTION :> Null))),
                  seen |-> st.seen \cup {item}]
            ELSE st

\* the lists of one SWOT key, of every result whose swot_analysis is a dict
\* that holds a list under the key, first n results
RECURSIVE SwotEntries(_, _, _)
SwotEntries(results, key, n) ==
    IF n = 0 THEN <<>>
    ELSE LET r == results[n]
             rest == SwotEntries(results, key, n - 1)
         IN IF PyIn(SWOT, r) /\ IsDict(r[2][SWOT]) /\ HasKey(r[2][SWOT], key)
               /\ IsList(r[2][SWOT][2][key])
            THEN rest \o r[2][SWOT][2][key][2]
            ELSE rest

\* lines 353-356 over the first n entries: the strs, each once
RECURSIVE SwotMerge(_, _)
SwotMerge(items, n) ==
    IF n = 0 THEN <<>>
    ELSE LET merged == SwotMerge(items, n - 1)
         IN IF IsStr(items[n]) /\ \A j \in 1..Len(merged) : merged[j] # items[n]
            THEN Append(merged, items[n])
            ELSE merged

\* lines 346-358
SwotMerged(results) ==
    Dict([key \in {SwotKeys[j] : j \in 1..Len(SwotKeys)} |->
            LET items == SwotEntries(results, key, Len(results))
            IN List(SwotMerge(items, Len(items)))])

\* result[key] or result.get of a result that is no dict: a list that holds the
\* key as an element, a str that holds it as a substring
SubscriptRaises(results) ==
    \/ \E n \in 1..Len(IdentityFields) :
          ~IsDict(results[1]) /\ PyIn(IdentityFields[n], results[1])
    \/ \E j \in 1..Len(results) :
          /\ ~IsDict(results[j])
          /\ \E key \in {COST_DRIVERS, QUANTITATIVE, QUALITATIVE, SWOT, SUSTAINABILITY} :
                PyIn(key, results[j])

\* 'desc not in quant_descriptions', 'title not in qual_titles' on a list or
\* dict: TypeError, unhashable type
UnhashableRaises(results) ==
    \/ LET items == Entries(results, QUANTITATIVE, Len(results))
       IN \E j \in 1..Len(items) :
             IsDict(items[j]) /\ HasKey(items[j], DESCRIPTION)
             /\ ~Hashable(items[j][2][DESCRIPTION])
    \/ LET items == Entries(results, QUALITATIVE, Len(results))
       IN \E j \in 1..Len(items) :
             IsDict(items[j]) /\ Truthy(QualTitle(items[j]))
             /\ ~Hashable(QualTitle(items[j]))

\* the merge of a non-empty all_results: the merged record, or Exception
Merge(results) ==
    IF SubscriptRaises(results) THEN Exception
    ELSE IF UnhashableRaises(results) THEN Exception
    ELSE LET identity == CopyIdentity(EmptyDict, results[1], Len(IdentityFields))
             cost == MergeMostComplete(identity, results, COST_DRIVERS)
             quant == Entries(results, QUANTITATIVE, Len(results))
             qual == Entries(results, QUALITATIVE, Len(results))
             lists == Put(Put(cost, QUANTITATIVE, List(QuantMerge(quant, Len(quant)).merged)),
                          QUALITATIVE, List(QualMerge(qual, Len(qual)).merged))
             swot == Put(lists, SWOT, SwotMerged(results))
             sustainability == MergeMostComplete(swot, results, SUSTAINABILITY)
         IN standardize_data(sustainability)

----------------------------------------------------------------------------
(* Spec: extract_from_large_document *)

AllChunksFailed == Dict(ERROR :> S("Failed to process any chunks successfully"))

\* json.dumps, to write the replies of the endpoint
RECURSIVE Dumps(_)
RECURSIVE DumpsElements(_, _)
RECURSIVE DumpsMembers(_, _)
Dumps(x) ==
    CASE x[1] = "num" -> [j \in 1..(IF x[2] < 10 THEN 1 ELSE 2) |-> "1"]
      [] x[1] = "null" -> <<"null">>
      [] x[1] = "str" -> <<QUOTE>> \o x[2] \o <<QUOTE>>
      [] x[1] = "list" -> <<"[">> \o DumpsElements(x[2], Len(x[2])) \o <<"]">>
      [] x[1] = "dict" -> <<"{">> \o DumpsMembers(x[2], DOMAIN x[2]) \o <<"}">>
DumpsElements(items, n) ==
    IF n = 0 THEN <<>>
    ELSE IF n = 1 THEN Dumps(items[1])
    ELSE DumpsElements(items, n - 1) \o <<",", " ">> \o Dumps(items[n])
DumpsMembers(d, keys) ==
    IF keys = {} THEN <<>>
    ELSE LET k == CHOOSE key \in keys : TRUE
             member == <<QUOTE>> \o k \o <<QUOTE, ":", " ">> \o Dumps(d[k])
         IN IF keys = {k} THEN member
            ELSE member \o <<",", " ">> \o DumpsMembers(d, keys \ {k})

\* what the model extracted from a chunk
Sugar ==
    Dict((COMMODITY :> S("Sugar"))
         @@ (SWOT :> Dict((K("strengths") :> S("Strong brand"))
                          @@ (K("threats") :> List(<<S("Drought")>>))))
         @@ (QUANTITATIVE :> List(<<S("Energy cost reduction")>>))
         @@ (COST_DRIVERS :> Dict(K("labor") :> Num(1))))
Hedge ==
    Dict((MANAGERS :> S("Ann"))
         @@ (SWOT :> S("none"))
         @@ (QUANTITATIVE :> List(<<Dict((DESCRIPTION :> S("Energy cost reduction"))
                                         @@ (VALUE_EUR :> Num(1)))>>)))
Nested == Dict(QUALITATIVE :> List(<<Dict(DESCRIPTION :> List(<<Num(1)>>))>>))
Dairy ==
    Dict((COMMODITY :> S("Dairy"))
         @@ (QUANTITATIVE :> List(<<S("Hedge contract")>>))
         @@ (QUALITATIVE :> List(<<S("Audit suppliers")>>))
         @@ (COST_DRIVERS :> Dict(K("energy") :> Num(1)))
         @@ (SUSTAINABILITY :> S("none")))
Untitled ==
    Dict((QUALITATIVE :> List(<<Dict((TITLE :> Null)
                                     @@ (DESCRIPTION :> S("Audit suppliers"))),
                                Dict(TITLE :> S("Reduce packaging"))>>))
         @@ (COST_DRIVERS :> Dict((K("labor") :> Num(1)) @@ (K("energy") :> Num(1))))
         @@ (SUSTAINABILITY :> Dict(K("water") :> Num(1))))

\* the reply texts of the endpoint: a fenced record inside prose, bare records,
\* a record with an "error" key, JSON that is no object, and prose
PipeReplies ==
    {<<"x", " ">> \o JSON_FENCE \o <<" ">> \o Dumps(Sugar) \o <<" ">> \o FENCE,
     Dumps(Hedge),
     Dumps(Nested),
     Dumps(Dairy),
     Dumps(Dict(ERROR :> S("x"))),
     <<"1">>,
     <<"null">>,
     <<"[", "]">>,
     <<QUOTE, "error", QUOTE>>,
     <<"x">>}

PipeOutcomes ==
    {Raised, Response(500, <<"x">>, NoJson),
     Response(400, <<"context_length_exceeded">>, NoJson)}
    \cup {Response(200, <<>>, ChatBody(Str(text))) : text \in PipeReplies}

\* documents: n text blocks as paragraphs, or as pages in the transcript format
\* of DocumentProcessor.extract_text_from_pdf
RECURSIVE ParagraphDoc(_)
ParagraphDoc(n) == IF n = 1 THEN <<"W">> ELSE ParagraphDoc(n - 1) \o <<NL, NL, "W">>
RECURSIVE PageDoc(_)
PageDoc(n) == IF n = 0 THEN <<>> ELSE PageDoc(n - 1) \o <<NL, PAGE, "w", "w", NL, "W", NL>>

PipeDocs == {<<>>} \cup {ParagraphDoc(n) : n \in 1..MaxBlocks} \cup {PageDoc(n) : n \in 1..MaxBlocks}

Init ==
    /\ pc = "start"
    /\ document_content \in PipeDocs
    /\ chunks = <<>> /\ idx = 0 /\ all_results = <<>>
    /\ submitted = <<>> /\ answers = <<>> /\ result = NotRun
    /\ budget = MAX_TOKENS
    /\ CallIdle /\ StdIdle /\ MergeIdle

\* lines 246-253: the token estimate decides the path; the Chunker runs
Start ==
    /\ pc = "start"
    /\ IF FloatGreater(TokenEstimate(document_content), FromInt(MAX_TOKENS))
       THEN /\ chunks' = process_large_document(document_content, MAX_TOKENS)
            /\ pc' = "chunk"
       ELSE /\ chunks' = chunks
            /\ pc' = "single"
    /\ UNCHANGED <<budget, document_content, idx, all_results, submitted, answers, result,
                   callVars, stdVars, mergeVars>>

\* line 376: the single-pass path
SinglePass ==
    /\ pc = "single"
    /\ \E h \in PipeOutcomes :
          /\ result' = extract_commodity_data(h)
          /\ answers' = Append(answers, h)
    /\ submitted' = Append(submitted, 0)
    /\ pc' = "done"
    /\ UNCHANGED <<budget, document_content, chunks, idx, all_results, callVars, stdVars, mergeVars>>

\* line 262, '"error" not in result', raises TypeError when result is a number
\* or None; line 265, result.get('error'), raises AttributeError when result is
\* a str or a list that holds "error"
ChunkTurnRaises(r) == InRaises(r) \/ (PyIn(ERROR, r) /\ ~IsDict(r))

\* lines 259-268: one turn of the chunk loop.  Nothing catches what it raises.
ProcessChunk ==
    /\ pc = "chunk"
    /\ idx < Len(chunks)
    /\ \E h \in PipeOutcomes :
          LET r == extract_commodity_data(h) IN
          /\ submitted' = Append(submitted, idx + 1)
          /\ answers' = Append(answers, h)
          /\ IF ChunkTurnRaises(r)
             THEN /\ pc' = "raised"
                  /\ result' = Exception
                  /\ UNCHANGED <<idx, all_results>>
             ELSE /\ all_results' = IF ~PyIn(ERROR, r) THEN Append(all_results, r)
                                    ELSE all_results
                  /\ idx' = idx + 1
                  /\ pc' = IF idx + 1 = Len(chunks) THEN "merge" ELSE "chunk"
                  /\ result' = result
    /\ UNCHANGED <<budget, document_content, chunks, callVars, stdVars, mergeVars>>

\* lines 271-373: after the loop
MergeResults ==
    /\ pc = "merge"
    /\ LET merged == IF all_results # <<>> THEN Merge(all_results) ELSE AllChunksFailed
       IN /\ result' = merged
          /\ pc' = IF merged = Exception THEN "raised" ELSE "done"
    /\ UNCHANGED <<budget, document_content, chunks, idx, all_results, submitted, answers,
                   callVars, stdVars, mergeVars>>

Next == Start \/ SinglePass \/ ProcessChunk \/ MergeResults

Spec == Init /\ [][Next]_vars

-----------------------------------------------------------------------------
(* SpecMerge: lines 271-371 on the chunk results that have no "error" *)

\* what extract_commodity_data returns for a chunk when the endpoint replies
\* with the JSON text of a value
ChunkResult(value) ==
    extract_commodity_data(Response(200, <<>>, ChatBody(Str(Dumps(value)))))

ChunkResults ==
    {ChunkResult(value) :
        value \in {Sugar, Hedge, Dairy, Untitled, Nested, EmptyDict, List(<<>>)}}

\* the results in the order p, a permutation of their indexes
Reorder(results, p) == [j \in 1..Len(results) |-> results[p[j]]]

Orders(n) == {p \in [1..n -> 1..n] : \A j, k \in 1..n : p[j] = p[k] => j = k}

MergeInit ==
    /\ surviving \in SeqsUpTo(ChunkResults, MaxBlocks) \ {<<>>}
    /\ merged_result = NotRun
    /\ reordered = <<>> /\ merged_reordered = NotRun
    /\ PipeIdle /\ CallIdle /\ StdIdle

\* lines 271-371 on all_results = surviving
MergeSurviving ==
    /\ merged_result = NotRun
    /\ merged_result' = Merge(surviving)
    /\ UNCHANGED <<surviving, reordered, merged_reordered, pipeVars, callVars, stdVars>>

\* the same lines on the same results in another order
MergeReordered ==
    /\ merged_result # NotRun /\ merged_reordered = NotRun
    /\ \E p \in Orders(Len(surviving)) :
          /\ reordered' = Reorder(surviving, p)
          /\ merged_reordered' = Merge(Reorder(surviving, p))
    /\ UNCHANGED <<surviving, merged_result, pipeVars, callVars, stdVars>>

MergeNext == MergeSurviving \/ MergeReordered

SpecMerge == MergeInit /\ [][MergeNext]_vars

-----------------------------------------------------------------------------
(* Properties of standardize_data, checked under SpecStd *)

\* C8: standardize_data is idempotent: standardizing the record that
\* standardize_data returned gives that record again, whatever the parsed
\* value was (entries of any type in the initiative lists, any shape of
\* responsible_managers and swot_analysis, values that are no mapping).
C8_Idempotent == twice # NotRun => twice = once

\* the second call has run on a record that the first call had to change
C8_Witness ==
    /\ twice # NotRun
    /\ IsDict(data) /\ once # data
    /\ HasKey(data, SWOT) /\ IsDict(data[2][SWOT])
    /\ \E key \in DOMAIN data[2][SWOT][2] : IsList(data[2][SWOT][2][key])

QuantKeys == {ID, DESCRIPTION, VALUE_EUR, STATUS}

\* how many of the first i entries the loop appends (str and dict entries)
KeptUpTo(items, i) ==
    Cardinality({j \in 1..i : IsStr(items[j]) \/ IsDict(items[j])})

\* C10: after standardization of a mapping whose quantitative_initiatives is a
\* list, every item of the list is a mapping with the keys id, description,
\* value_eur, status; a bare string at (0-based) position i has become
\* {id: QT(i+1), description: the string, value_eur: null, status: null}; a
\* mapping keeps every key and value it had, and each of the four keys it
\* lacked holds its default (QT(i+1), "Initiative (i+1)", null, null).
C10_QuantitativeItems ==
    (once # NotRun /\ IsDict(data) /\ HasKey(data, QUANTITATIVE)
        /\ IsList(data[2][QUANTITATIVE]))
    => LET src == data[2][QUANTITATIVE][2]
           out == once[2][QUANTITATIVE]
           Default(k, n) == CASE k = ID -> QTId(n)
                              [] k = DESCRIPTION -> InitiativeLabel(n)
                              [] OTHER -> Null
       IN /\ IsList(out)
          /\ Len(out[2]) = KeptUpTo(src, Len(src))
          /\ \A m \in 1..Len(out[2]) :
                IsDict(out[2][m]) /\ QuantKeys \subseteq DOMAIN out[2][m][2]
          /\ \A n \in 1..Len(src) :
                /\ IsStr(src[n]) =>
                      out[2][KeptUpTo(src, n)]
                        = Dict((ID :> QTId(n)) @@ (DESCRIPTION :> src[n])
                               @@ (VALUE_EUR :> Null) @@ (STATUS :> Null))
                /\ IsDict(src[n]) =>
                      LET item == out[2][KeptUpTo(src, n)][2]
                      IN /\ DOMAIN item = DOMAIN src[n][2] \cup QuantKeys
                         /\ \A k \in DOMAIN src[n][2] : item[k] = src[n][2][k]
                         /\ \A k \in QuantKeys \ DOMAIN src[n][2] :
                               item[k] = Default(k, n)

\* a list with a bare string and with a mapping that has value_eur but no id
\* and no status has been standardized
C10_Witness ==
    /\ once # NotRun /\ IsDict(data) /\ HasKey(data, QUANTITATIVE)
    /\ IsList(data[2][QUANTITATIVE])
    /\ \E n \in 1..Len(data[2][QUANTITATIVE][2]) : IsStr(data[2][QUANTITATIVE][2][n])
    /\ \E n \in 1..Len(data[2][QUANTITATIVE][2]) :
          LET item == data[2][QUANTITATIVE][2][n]
          IN /\ IsDict(item) /\ HasKey(item, VALUE_EUR)
             /\ item[2][VALUE_EUR] # Null
             /\ ~HasKey(item, ID) /\ ~HasKey(item, STATUS)

-----------------------------------------------------------------------------
(* Properties of one extraction call, checked under SpecCall *)

\* the endpoint answered 200 with a reply text in the wire format
IsReply ==
    /\ http.kind = "resp" /\ http.status = 200
    /\ http.json[1] = "reply" /\ IsStr(http.json[2])
response_text == http.json[2][2]

IsErrorRecord(r) == IsDict(r) /\ HasKey(r, ERROR)

ContextMarker == <<"context_length_exceeded">>

\* C4: a 400 whose body holds a context-length-exceeded marker gives an error
\* record that carries a solution hint; a 400 without the marker gives the
\* generic bad-request record, without solution; no answer other than a 400
\* gives an error record with solution.
C4_ContextTooLarge ==
    app_result # NotRun =>
      LET is400 == http.kind = "resp" /\ http.status = 400
          marked == Find(http.text, ContextMarker) > 0
      IN /\ (is400 /\ marked) =>
               IsErrorRecord(app_result) /\ HasKey(app_result, SOLUTION)
         /\ (is400 /\ ~marked) => app_result = BadRequest(http.text)
         /\ ~is400 => ~(IsErrorRecord(app_result) /\ HasKey(app_result, SOLUTION))

\* a str field of the record r holds the text
Carries(r, text) ==
    \E k \in DOMAIN r[2] : IsStr(r[2][k]) /\ Find(r[2][k][2], text) > 0

\* the error record r of a call answered by http has its kind fixed by the
\* status: 401/403 the authentication message, >= 500 the server message, any
\* other status but 200 and 400 a record holding the status and the body
\* text, a raised exception the request-failed message
KindByStatus(r) ==
    r # NotRun =>
      /\ http.kind = "exc" => r = RequestFailed
      /\ (http.kind = "resp" /\ http.status # 200) =>
            /\ IsErrorRecord(r) /\ IsStr(r[2][ERROR])
            /\ http.status \in {401, 403} => r[2][ERROR] = AuthError[2][ERROR]
            /\ http.status >= 500 => r[2][ERROR] = ServerError[2][ERROR]
            /\ (http.status \notin {400, 401, 403} /\ http.status < 500) =>
                  /\ Carries(r, <<StatusText[http.status]>>)
                  /\ Carries(r, http.text)

\* C5: every answer but 200, and every exception of the transport, gives an
\* error record whose kind the status alone fixes (KindByStatus), from
\* app.extract_commodity_data and from LlamaApiClient.extract_commodity_data.
C5_ErrorKindByStatus == KindByStatus(app_result) /\ KindByStatus(client_result)

\* app.extract_commodity_data alone maps the statuses as KindByStatus says
AppErrorKindByStatus == KindByStatus(app_result)

\* C6: when the reply is prose, a json-tagged fence, a valid JSON text J, the
\* closing fence and prose, the candidate parses to the value of J: the call
\* of app.py returns standardize_data of it and the call of LlamaApiClient
\* returns it, also when a string of J holds a fence marker or a brace.
C6_FencedJsonRecovered ==
    \A pre \in ProseBefore, post \in ProseAfter, J \in ValidJson :
       (IsReply /\ response_text = pre \o JSON_FENCE \o J \o FENCE \o post) =>
          /\ app_result # NotRun => app_result = standardize_data(loads(J).val)
          /\ client_result # NotRun => client_result = loads(J).val

\* C7: for a reply text without fence marker and without brace the candidate
\* is the whole text, and the call returns the parse-error record with
\* raw_response equal to the reply text.
C7_NoFenceNoBrace ==
    (IsReply /\ \A j \in 1..Len(response_text) :
                    response_text[j] \notin {"FENCE", "{", "}"}) =>
       /\ json_str(response_text) = response_text
       /\ app_result # NotRun => app_result = ParseError(response_text)
       /\ client_result # NotRun => client_result = ParseError(response_text)

-----------------------------------------------------------------------------
(* Properties of extract_from_large_document, checked under Spec *)

\* what extract_commodity_data returned to the j-th call
Returned(j) == extract_commodity_data(answers[j])

\* the chunked path was taken
Chunked == chunks # <<>>

\* the reply text of a 200 answer in the chat format
content(h) == h.json[2][CHOICES][2][1][2][MESSAGE][2][CONTENT][2]

\* C1: extract_from_large_document raises nothing and returns a mapping, an
\* error record or a canonical record, on the single-pass and on the chunked
\* path, whatever the endpoint answers.
C1_ReturnsRecord == pc # "raised" /\ (pc = "done" => IsDict(result))

\* C2: on the chunked path every chunk is submitted once, in document order,
\* a chunk whose call returns an error record stops nothing, and the merge
\* input is the sequence of the results that are no error records, in chunk
\* order.
C2_EveryChunkOnce ==
    (Chunked /\ pc \in {"merge", "done", "raised"}) =>
       /\ submitted = [j \in 1..Len(chunks) |-> j]
       /\ all_results = SelectSeq([j \in 1..Len(answers) |-> Returned(j)],
                                  LAMBDA r : ~IsErrorRecord(r))

\* C3: on the chunked path, when every call returned a mapping, the pipeline
\* returns the AllChunksFailed error record if every call returned an error
\* record, and otherwise a merged record without error key.
C3_MergedUnlessAllFailed ==
    (Chunked /\ pc \in {"done", "raised"}
        /\ \A j \in 1..Len(answers) : IsDict(Returned(j))) =>
       IF \A j \in 1..Len(answers) : IsErrorRecord(Returned(j))
       THEN pc = "done" /\ result = AllChunksFailed
       ELSE pc = "done" /\ IsDict(result) /\ ~HasKey(result, ERROR)

SwotKeySet == {SwotKeys[n] : n \in 1..Len(SwotKeys)}

\* a mapping with the four keys, each holding a list
FourLists(swot) ==
    /\ IsDict(swot)
    /\ \A key \in SwotKeySet : HasKey(swot, key) /\ IsList(swot[2][key])

\* out is the supplied mapping with each of the four keys absent -> [],
\* no list -> one-element list, list -> unchanged
SwotRule(supplied, out) ==
    /\ FourLists(out)
    /\ DOMAIN out[2] = DOMAIN supplied[2] \cup SwotKeySet
    /\ \A key \in DOMAIN out[2] :
          out[2][key] = IF ~HasKey(supplied, key) THEN List(<<>>)
                        ELSE IF key \in SwotKeySet /\ ~IsList(supplied[2][key])
                             THEN List(<<supplied[2][key]>>)
                        ELSE supplied[2][key]

SwotStandardized ==
    (once # NotRun /\ IsDict(data) /\ HasKey(data, SWOT)) =>
       IF IsDict(data[2][SWOT]) THEN SwotRule(data[2][SWOT], once[2][SWOT])
       ELSE once[2][SWOT] = data[2][SWOT]

-----------------------------------------------------------------------------
(* Properties of process_large_document, checked under SpecChunk *)

\* the words of a text, in order
Words(text) == SelectSeq(text, LAMBDA tok : tok # NL)

\* the words of the sections of a group, and how many they are
RECURSIVE GroupText(_, _)
GroupText(sections, group) ==
    IF group = <<>> THEN <<>>
    ELSE Words(sections[Head(group)]) \o GroupText(sections, Tail(group))
GroupWords(sections, group) == WordCount(GroupText(sections, group))

RECURSIVE Flatten(_)
Flatten(groups) == IF groups = <<>> THEN <<>> ELSE Head(groups) \o Flatten(Tail(groups))

\* the indexes of the sections that are not the empty string, in order
RECURSIVE NonEmptyUpTo(_, _)
NonEmptyUpTo(sections, n) ==
    IF n = 0 THEN <<>>
    ELSE NonEmptyUpTo(sections, n - 1) \o (IF sections[n] # <<>> THEN <<n>> ELSE <<>>)

\* C16: a document with at least one word whose whole-text estimate does not
\* exceed the budget comes back as one chunk, equal to the document.
C16_WholeDocumentOneChunk ==
    (pc = "chunked" /\ WordCount(document_content) > 0
        /\ ~FloatGreater(TokenEstimate(document_content), FromInt(budget)))
    => chunks = <<document_content>>

\* C17: no chunk is the empty string; the sections the chunks were built
\* from, listed chunk by chunk, are the non-empty sections of the document in
\* document order, each in one chunk; a chunk holds the texts of its
\* sections, and its words are their words in order.
C17_SectionsKept ==
    pc = "chunked" =>
      LET sections == Sections(document_content)
          groups == SectionGroups(document_content, budget)
      IN /\ \A j \in 1..Len(chunks) : chunks[j] # <<>>
         /\ Len(groups) = Len(chunks)
         /\ Flatten(groups) = NonEmptyUpTo(sections, Len(sections))
         /\ \A j \in 1..Len(chunks) :
               /\ groups[j] # <<>>
               /\ \A k \in 1..Len(groups[j]) : Find(chunks[j], sections[groups[j][k]]) > 0
               /\ Words(chunks[j]) = GroupText(sections, groups[j])

\* a document was cut into several chunks, one of them built from two
\* sections
C17_Witness ==
    /\ pc = "chunked" /\ Len(chunks) >= 2
    /\ \E j \in 1..Len(chunks) : Len(SectionGroups(document_content, budget)[j]) >= 2

\* 1.3 times the words is more than the budget
OverBudget(words, max_tokens) == 13 * words > 10 * max_tokens

\* a chunk of two or more sections is within the budget, and a chunk over the
\* budget is one section
ChunksWithinBudget ==
    pc = "chunked" =>
      LET sections == Sections(document_content)
          groups == SectionGroups(document_content, budget)
      IN \A j \in 1..Len(groups) :
            OverBudget(GroupWords(sections, groups[j]), budget) => Len(groups[j]) = 1

\* C18: a chunk built from two or more sections has an estimate (1.3 times
\* the words of its sections) within the budget, a chunk over the budget is
\* one section, and a chunk is closed at a section only if 1.3 times the
\* words of the chunk and of that section is more than the budget.
C18_BudgetGreedy ==
    pc = "chunked" =>
      LET sections == Sections(document_content)
          groups == SectionGroups(document_content, budget)
      IN /\ \A j \in 1..Len(groups) :
               OverBudget(GroupWords(sections, groups[j]), budget) => Len(groups[j]) = 1
         /\ \A j \in 1..(Len(groups) - 1) :
               OverBudget(GroupWords(sections, groups[j])
                            + WordCount(sections[Head(groups[j + 1])]), budget)

-----------------------------------------------------------------------------
(* Properties of the merge of chunk results, checked under SpecMerge *)

\* the merge ran on mappings and returned a record
Merged ==
    /\ merged_result # NotRun /\ IsDict(merged_result)
    /\ \A j \in 1..Len(surviving) : IsDict(surviving[j])

\* the positions of the surviving results that are mappings with the key f
Suppliers(results, f) == {j \in 1..Len(results) : IsDict(results[j]) /\ HasKey(results[j], f)}

Earliest(positions) == CHOOSE j \in positions : \A k \in positions : j <= k

\* C12: each of commodity_name, responsible_managers, creation_date and
\* valid_until has in the merged record the value of the first chunk result
\* (in chunk order) that supplies it, and is absent only when none supplies it.
C12_IdentityFromFirstSupplier ==
    Merged =>
        \A n \in 1..Len(IdentityFields) :
            LET f == IdentityFields[n]
                who == Suppliers(surviving, f)
            IN IF who = {} THEN ~HasKey(merged_result, f)
               ELSE /\ HasKey(merged_result, f)
                    /\ merged_result[2][f] = surviving[Earliest(who)][2][f]

\* the items of the list under key of the surviving results, as <<chunk, index>>
Occurrences(key) ==
    {o \in (1..Len(surviving)) \X (1..MaxItems) :
        /\ IsDict(surviving[o[1]]) /\ HasKey(surviving[o[1]], key)
        /\ IsList(surviving[o[1]][2][key])
        /\ o[2] <= Len(surviving[o[1]][2][key][2])}

Item(key, o) == surviving[o[1]][2][key][2][o[2]]

\* o comes before p in chunk order, then in list order
Before(o, p) == o[1] < p[1] \/ (o[1] = p[1] /\ o[2] < p[2])

MergedList(key) == merged_result[2][key][2]

\* the first item of the chunks' quantitative lists with the description desc
FirstWith(desc) ==
    CHOOSE o \in Occurrences(QUANTITATIVE) :
        /\ Item(QUANTITATIVE, o)[2][DESCRIPTION] = desc
        /\ \A p \in Occurrences(QUANTITATIVE) :
              Item(QUANTITATIVE, p)[2][DESCRIPTION] = desc => ~Before(p, o)

\* C13: the merged quantitative_initiatives list has exactly one entry for
\* each description that occurs in a chunk's list; the entry is the first
\* occurrence in chunk order, with that occurrence's id, value_eur and status;
\* the entries are in order of first occurrence.
C13_QuantitativeFirstOccurrences ==
    Merged =>
        LET list == MergedList(QUANTITATIVE)
            occ == Occurrences(QUANTITATIVE)
        IN /\ \A m, n \in 1..Len(list) :
                 list[m][2][DESCRIPTION] = list[n][2][DESCRIPTION] => m = n
           /\ \A o \in occ : \E m \in 1..Len(list) :
                 list[m][2][DESCRIPTION] = Item(QUANTITATIVE, o)[2][DESCRIPTION]
           /\ \A m \in 1..Len(list) :
                 /\ \E o \in occ :
                       Item(QUANTITATIVE, o)[2][DESCRIPTION] = list[m][2][DESCRIPTION]
                 /\ list[m] = Item(QUANTITATIVE, FirstWith(list[m][2][DESCRIPTION]))
           /\ \A m, n \in 1..Len(list) :
                 m < n => Before(FirstWith(list[m][2][DESCRIPTION]),
                                 FirstWith(list[n][2][DESCRIPTION]))

\* two chunks report the same description with different values, and another
\* description is reported too
C13_Witness ==
    /\ Merged
    /\ Len(MergedList(QUANTITATIVE)) >= 2
    /\ \E o, p \in Occurrences(QUANTITATIVE) :
          /\ o[1] < p[1]
          /\ Item(QUANTITATIVE, o)[2][DESCRIPTION] = Item(QUANTITATIVE, p)[2][DESCRIPTION]
          /\ Item(QUANTITATIVE, o)[2][VALUE_EUR] # Item(QUANTITATIVE, p)[2][VALUE_EUR]

\* the key of a qualitative item: its title, or its description when it has no title
QualKey(item) == IF HasKey(item, TITLE) THEN item[2][TITLE] ELSE item[2][DESCRIPTION]

\* C14: the merged qualitative_initiatives list is the chunks' lists
\* concatenated and deduplicated by key (title, or description when the title
\* is absent): every item of every chunk's list is represented by exactly one
\* merged entry with the same key, so an item is lost only as a duplicate.
C14_QualitativeNothingLost ==
    Merged =>
        \A o \in Occurrences(QUALITATIVE) :
            LET item == Item(QUALITATIVE, o)
                list == MergedList(QUALITATIVE)
            IN (IsDict(item) /\ (HasKey(item, TITLE) \/ HasKey(item, DESCRIPTION))) =>
                   Cardinality({m \in 1..Len(list) : list[m][2][TITLE] = QualKey(item)}) = 1

\* the elements of a list value as a collection, order set aside
Bag(x) ==
    LET elements == {x[2][j] : j \in 1..Len(x[2])}
    IN {<<e, Cardinality({j \in 1..Len(x[2]) : x[2][j] = e})>> : e \in elements}

SameLeaf(a, b) ==
    /\ a[1] = b[1]
    /\ IF IsList(a) THEN Bag(a) = Bag(b) ELSE a = b

\* equal values, the lists (and those of a mapping) taken as collections
SameUnordered(a, b) ==
    /\ a[1] = b[1]
    /\ IF IsDict(a)
       THEN /\ DOMAIN a[2] = DOMAIN b[2]
            /\ \A k \in DOMAIN a[2] : SameLeaf(a[2][k], b[2][k])
       ELSE SameLeaf(a, b)

\* the fields that are not first-wins identity fields
OrderFree == {COST_DRIVERS, SUSTAINABILITY, QUANTITATIVE, QUALITATIVE, SWOT}

SameField(a, b, f) ==
    /\ HasKey(a, f) <=> HasKey(b, f)
    /\ HasKey(a, f) =>
          IF f \in {COST_DRIVERS, SUSTAINABILITY} THEN a[2][f] = b[2][f]
          ELSE SameUnordered(a[2][f], b[2][f])

\* C15: the merge is order-independent: the merged records of a sequence of
\* chunk results and of any permutation of it agree on every field other than
\* the four identity fields, cost_drivers and sustainability_factors compared
\* by value, the initiative and SWOT lists as collections.
C15_OrderIndependent ==
    (Merged /\ merged_reordered # NotRun /\ IsDict(merged_reordered)) =>
        \A f \in OrderFree : SameField(merged_result, merged_reordered, f)

\* the number of top-level keys of a value, a non-mapping counting as zero
KeyCount(x) == IF IsDict(x) THEN Cardinality(DOMAIN x[2]) ELSE 0

\* the value of the field f in the result that has the most keys there, the
\* earliest such result when several have the most
Winner(f) ==
    LET who == Suppliers(surviving, f)
        most == {j \in who : \A k \in who :
                    KeyCount(surviving[k][2][f]) <= KeyCount(surviving[j][2][f])}
    IN surviving[Earliest(most)][2][f]

\* C19: cost_drivers and sustainability_factors of the merged record are the
\* value of the chunk result whose value has the most top-level keys (a
\* non-mapping counts as zero keys), the earliest such result on a tie; the
\* field is absent exactly when no chunk result has it.
C19_MostCompleteWins ==
    Merged =>
        \A f \in {COST_DRIVERS, SUSTAINABILITY} :
            IF Suppliers(surviving, f) = {} THEN ~HasKey(merged_result, f)
            ELSE HasKey(merged_result, f) /\ merged_result[2][f] = Winner(f)

\* two results tie on cost_drivers with different values, a larger value comes
\* after a smaller one, and a non-mapping value competes with a mapping
C19_Witness ==
    /\ Merged
    /\ \E j, k \in Suppliers(surviving, COST_DRIVERS) :
          /\ j < k
          /\ surviving[j][2][COST_DRIVERS] # surviving[k][2][COST_DRIVERS]
          /\ KeyCount(surviving[j][2][COST_DRIVERS]) = KeyCount(surviving[k][2][COST_DRIVERS])
          /\ merged_result[2][COST_DRIVERS] = surviving[j][2][COST_DRIVERS]
    /\ \E j, k \in Suppliers(surviving, SUSTAINABILITY) :
          /\ j < k
          /\ ~IsDict(surviving[j][2][SUSTAINABILITY])
          /\ merged_result[2][SUSTAINABILITY] = surviving[k][2][SUSTAINABILITY]

-----------------------------------------------------------------------------
(* Properties of the ids of the returned record, checked under Spec *)

\* the items of a list value that are mappings with an id have distinct ids
DistinctIds(list) ==
    \A m, n \in 1..Len(list[2]) :
        (/\ IsDict(list[2][m]) /\ HasKey(list[2][m], ID)
         /\ IsDict(list[2][n]) /\ HasKey(list[2][n], ID)
         /\ list[2][m][2][ID] = list[2][n][2][ID]) => m = n

\* C11: in every canonical record the pipeline returns, single-pass or merged
\* from chunks, the ids of the quantitative_initiatives items are pairwise
\* distinct, and so are those of the qualitative_initiatives items.
C11_IdsDistinct ==
    (pc = "done" /\ IsDict(result) /\ ~HasKey(result, ERROR)) =>
        \A key \in {QUANTITATIVE, QUALITATIVE} :
            (HasKey(result, key) /\ IsList(result[2][key])) => DistinctIds(result[2][key])

====
